---- MODULE Spec2Model ----
(***************************************************************************)
(* Coffee & Books Cafe analytics dashboard (cafe_dashboard.py).            *)
(*                                                                         *)
(* The dashboard is a Streamlit script: every user interaction re-runs the *)
(* whole script top to bottom.  One behaviour of Spec is one server        *)
(* process serving one session: a sequence of script runs that share the   *)
(* two process-wide caches (st.cache_data of load_data, st.cache_resource  *)
(* of build_prediction_pipeline).                                          *)
(*                                                                         *)
(* Money and coordinates are integers in hundredths of an AED, so that the *)
(* two-decimal literals of the source are exact.  Probabilities are        *)
(* integers in hundredths (percent).                                       *)
(***************************************************************************)
EXTENDS Integers, Sequences, FiniteSets, TLC

VARIABLES
    data_cache,      \* memo of load_data (st.cache_data)
    resource_cache,  \* memo of build_prediction_pipeline (st.cache_resource)
    reads,           \* number of times pd.read_csv(DATA_URL) was executed
    fits,            \* number of times clf_pipeline.fit was attempted
    page,            \* the sidebar radio's value in this run
    clicked,         \* the form button whose click started this run
    rendered,        \* the form buttons on screen (drawn by the latest run)
    pc,              \* position of the running script
    df,              \* module-level df of this run
    built,           \* (pipeline, df_ref, model_ready) of this run
    input_data,      \* the one-row frame built from the prospect form
    probability,     \* pipeline.predict_proba(input_data)[0][1], in percent
    tier,            \* which of the three result boxes was drawn
    reg_income,      \* spending_form: income bracket
    reg_reason,      \* spending_form: visit reasons
    final_spend,     \* the clamped spend estimate, hundredths of AED
    income_impact,   \* the "Income Impact" metric, hundredths of AED
    user_point,      \* persona_form: (c_spend, c_total, c_membership)
    best_cluster,    \* index of the matched centroid
    shown,           \* the result blocks drawn by this run
    errors,          \* the st.error messages drawn by this run
    sources_read,    \* the sources that load_data's body has read, in order
    computed         \* the computations this run has performed

cacheVars == <<data_cache, resource_cache, reads, fits, sources_read>>
runVars   == <<page, clicked, rendered, pc, df, built, shown, errors, computed>>
simVars   == <<input_data, probability, tier>>
spendVars == <<reg_income, reg_reason, final_spend, income_impact>>
matchVars == <<user_point, best_cluster>>
vars == <<cacheVars, runVars, simVars, spendVars, matchVars>>

---------------------------------------------------------------------------
(* Bounds of the model *)

\* most rows of a dataset whose labels are derived one by one
MaxRows == 3

\* most copies of one pool row in a candidate dataset
MaxCopies == 3

\* largest amount (AED) tried on the three sliders of the prospect form
MaxAmount == 3

---------------------------------------------------------------------------
(* The survey table *)

TARGET == "Visit_Likelihood"
NUM_FEAT == <<"Avg_Spend_AED", "Total_Spend_AED", "Willing_Pay_Membership">>
CAT_FEAT == <<"Age_Group", "Gender", "Employment", "Income", "Education",
              "Cafe_Frequency", "Reading_Frequency", "Visit_Reason">>
FEATURES == NUM_FEAT \o CAT_FEAT

positive_maps == {"Definitely will visit", "Probably will visit"}

\* mutant: KNeighborsClassifier(n_neighbors=3)
n_neighbors_Three == 5 - 2

\* sklearn's default n_neighbors of KNeighborsClassifier()
n_neighbors == 5

Range(s) == {s[i] : i \in DOMAIN s}

\* One survey row.  The five categorical columns that the candidate rows do
\* not vary hold one fixed answer each.
SurveyRecord(avg, total, wtp, income, reading, likelihood) ==
    [Avg_Spend_AED |-> avg, Total_Spend_AED |-> total,
     Willing_Pay_Membership |-> wtp,
     Age_Group |-> "25-34", Gender |-> "Female", Employment |-> "Employed",
     Income |-> income, Education |-> "Bachelor",
     Cafe_Frequency |-> "Once a week", Reading_Frequency |-> reading,
     Visit_Reason |-> "Coffee quality", Visit_Likelihood |-> likelihood]

\* The rows a candidate CSV file is made of (small amounts keep the exact
\* distance arithmetic inside TLC's integers).
PoolRows ==
    << SurveyRecord(1, 1, 0, "10,001 - 20,000", "Occasional reader", "Definitely will visit"),
       SurveyRecord(1, 2, 3, "20,001 - 35,000", "Regular reader", "Probably will visit"),
       SurveyRecord(3, 3, 0, "50,001 - 75,000", "Occasional reader", "Might visit") >>

RECURSIVE Repeat(_, _)
Repeat(r, n) == IF n = 0 THEN <<>> ELSE <<r>> \o Repeat(r, n - 1)

RECURSIVE Blocks(_, _)
\* counts[i] copies of PoolRows[i], for i = from .. Len(PoolRows)
Blocks(counts, from) ==
    IF from > Len(PoolRows) THEN <<>>
    ELSE Repeat(PoolRows[from], counts[from]) \o Blocks(counts, from + 1)

\* What pd.read_csv can return: a frame with the survey columns and any
\* number of rows, the empty frame (header only) included.
DataFrame(rows) == [kind |-> "DataFrame", rows |-> rows]
None == [kind |-> "None", rows |-> <<>>]
Frames == {DataFrame(Blocks(c, 1)) : c \in [DOMAIN PoolRows -> {0, 1, MaxCopies}]}

Column(frame, col) == [i \in DOMAIN frame.rows |-> frame.rows[i][col]]
Unique(frame, col) == Range(Column(frame, col))

---------------------------------------------------------------------------
(* build_prediction_pipeline: StandardScaler + OneHotEncoder + KNN *)

RECURSIVE SumSeq(_)
SumSeq(s) == IF s = <<>> THEN 0 ELSE s[1] + SumSeq(Tail(s))

RECURSIVE ProdSeq(_)
ProdSeq(s) == IF s = <<>> THEN 1 ELSE s[1] * ProdSeq(Tail(s))

\* mutant: 'Might visit' counted as a likely visit
Label_AnyVisit(likelihood) ==
    IF likelihood \in positive_maps \cup {"Might visit"} THEN 1 ELSE 0

\* y = df[TARGET].map(lambda x: 1 if x in positive_maps else 0)
Label(likelihood) == IF likelihood \in positive_maps THEN 1 ELSE 0

\* StandardScaler.fit on one column: n^2 times the population variance,
\* n * sum(x^2) - (sum x)^2, kept as an integer.
VarTimesN2(frame, col) ==
    LET x == Column(frame, col)
        n == Len(x)
    IN  n * SumSeq([i \in DOMAIN x |-> x[i] * x[i]]) - SumSeq(x) * SumSeq(x)

\* clf_pipeline.fit(X, y) raises on a frame without rows (the scaler finds
\* an array with 0 samples).
FitRaises(frame) == Len(frame.rows) = 0

\* The fitted pipeline: the scaler's statistics, the encoder's categories_,
\* and the classifier's stored training set and classes_.
Fit(frame) ==
    [ n          |-> Len(frame.rows),
      X          |-> frame.rows,
      y          |-> [i \in DOMAIN frame.rows |-> Label(frame.rows[i][TARGET])],
      var_n2     |-> [j \in DOMAIN NUM_FEAT |-> VarTimesN2(frame, NUM_FEAT[j])],
      categories |-> [c \in Range(CAT_FEAT) |-> Unique(frame, c)],
      classes    |-> {Label(frame.rows[i][TARGET]) : i \in DOMAIN frame.rows} ]

NoPipeline ==
    [ n |-> 0, X |-> <<>>, y |-> <<>>, var_n2 |-> [j \in DOMAIN NUM_FEAT |-> 0],
      categories |-> [c \in Range(CAT_FEAT) |-> {}], classes |-> {} ]

\* OneHotEncoder(handle_unknown='ignore').transform of one value: one
\* indicator per category seen in fit; a value not seen gets all zeros.
OneHot(pipeline, col, value) ==
    [k \in pipeline.categories[col] |-> IF value = k THEN 1 ELSE 0]

\* mutant: OneHotEncoder() with its default handle_unknown='error'
EncodeRaises_OnUnknown(pipeline, rec) ==
    \E c \in DOMAIN CAT_FEAT : rec[CAT_FEAT[c]] \notin pipeline.categories[CAT_FEAT[c]]

\* An encoder with handle_unknown='error' raises here; 'ignore' never does.
EncodeRaises(pipeline, rec) == FALSE

RECURSIVE SumOver(_, _)
SumOver(S, f) ==
    IF S = {} THEN 0
    ELSE LET k == CHOOSE k \in S : TRUE IN f[k] + SumOver(S \ {k}, f)

\* squared Euclidean distance between the one-hot blocks of two records
CatDist2(pipeline, a, b) ==
    SumSeq([c \in DOMAIN CAT_FEAT |->
        LET col == CAT_FEAT[c]
            ea  == OneHot(pipeline, col, a[col])
            eb  == OneHot(pipeline, col, b[col])
        IN  SumOver(pipeline.categories[col],
                    [k \in pipeline.categories[col] |-> (ea[k] - eb[k]) * (ea[k] - eb[k])])])

\* StandardScaler divides a column by its standard deviation, and by 1 when
\* the column is constant.  scale^2 = ScaleNum / ScaleDen.
ScaleDen(pipeline, j) == IF pipeline.var_n2[j] > 0 THEN pipeline.n * pipeline.n ELSE 1
ScaleNum(pipeline, j) == IF pipeline.var_n2[j] > 0 THEN pipeline.var_n2[j] ELSE 1

\* Squared Euclidean distance of two records in the transformed space
\* (standardised numeric columns, one-hot categorical columns), times the
\* common denominator CommonDen so that it is an integer.  The means cancel
\* in the differences.
CommonDen(pipeline) == ProdSeq([j \in DOMAIN NUM_FEAT |-> ScaleNum(pipeline, j)])

Dist2(pipeline, a, b) ==
    SumSeq([j \in DOMAIN NUM_FEAT |->
        LET d == a[NUM_FEAT[j]] - b[NUM_FEAT[j]]
        IN  ScaleDen(pipeline, j) * d * d
              * ProdSeq([i \in DOMAIN NUM_FEAT |->
                            IF i = j THEN 1 ELSE ScaleNum(pipeline, i)])])
    + CatDist2(pipeline, a, b) * CommonDen(pipeline)

\* kneighbors: the n_neighbors training rows closest to the query, rows at
\* equal distance taken in row order.
Neighbours(pipeline, rec) ==
    LET d == [i \in 1..pipeline.n |-> Dist2(pipeline, pipeline.X[i], rec)]
        before(i) == {j \in 1..pipeline.n : d[j] < d[i] \/ (d[j] = d[i] /\ j < i)}
    IN  {i \in 1..pipeline.n : Cardinality(before(i)) < n_neighbors}

Raised(what) == [ok |-> FALSE, value |-> 0, error |-> what]
Returned(v) == [ok |-> TRUE, value |-> v, error |-> ""]

\* mutant: column 0 of predict_proba's row taken
PositiveColumn_Column0(pipeline, rec) ==
    LET votes == {i \in Neighbours(pipeline, rec) : pipeline.y[i] = 0}
    IN  (100 * Cardinality(votes)) \div n_neighbors

\* Column 1 of predict_proba's row is the second of the sorted classes_: the
\* positive class when both labels occur in the training data.
PositiveColumn(pipeline, rec) ==
    LET votes == {i \in Neighbours(pipeline, rec) : pipeline.y[i] = 1}
    IN  (100 * Cardinality(votes)) \div n_neighbors

\* pipeline.predict_proba(input_data)[0][1]
\*   - kneighbors raises ValueError when n_neighbors > n_samples_fit;
\*   - predict_proba has one column per class of the training labels, so
\*     [0][1] raises IndexError when they are all alike.
PredictProba(pipeline, rec) ==
    IF EncodeRaises(pipeline, rec) THEN Raised("ValueError: unknown category")
    ELSE IF pipeline.n < n_neighbors THEN Raised("ValueError: n_neighbors > n_samples")
    ELSE IF Cardinality(pipeline.classes) < 2 THEN Raised("IndexError")
    ELSE Returned(PositiveColumn(pipeline, rec))

\* the three result boxes drawn from the probability
\* mutant: the thresholds compared with >=
Tier_Inclusive(p) == IF p >= 70 THEN "HIGH" ELSE IF p >= 40 THEN "MEDIUM" ELSE "LOW"

Tier(p) == IF p > 70 THEN "HIGH" ELSE IF p > 40 THEN "MEDIUM" ELSE "LOW"

---------------------------------------------------------------------------
(* The Spending Predictor (Simulation Lab, tab 1) *)

IncomeBrackets ==
    <<"Less than 5,000", "5,000 - 10,000", "10,001 - 20,000", "20,001 - 35,000",
      "35,001 - 50,000", "50,001 - 75,000", "Above 75,000">>

VisitReasons ==
    {"Food quality", "Work/study", "Coffee quality", "Ambiance", "Social meetings"}

\* TASK_C_DRIVERS: the income coefficients of the regression table, in
\* hundredths of an AED.  "20,001 - 35,000" has no row: it is the baseline.
TASK_C_DRIVERS ==
    [b \in Range(IncomeBrackets) |->
        CASE b = "Above 75,000"    -> 11724
          [] b = "50,001 - 75,000" -> 8974
          [] b = "Less than 5,000" -> -4620
          [] b = "5,000 - 10,000"  -> -3910
          [] b = "10,001 - 20,000" -> -1669
          [] b = "35,001 - 50,000" -> 1416
          [] OTHER                 -> 0]

\* mutant: the coefficients of the two highest brackets exchanged
IncomeImpact_TopSwapped(income) ==
    IF income = "Above 75,000" THEN 8974
    ELSE IF income = "50,001 - 75,000" THEN 11724
    ELSE IF income = "35,001 - 50,000" THEN 1416
    ELSE IF income = "Less than 5,000" THEN -4620
    ELSE IF income = "5,000 - 10,000" THEN -3910
    ELSE 0

\* the if / elif chain on reg_income
IncomeImpact(income) ==
    IF income = "Above 75,000" THEN 11724
    ELSE IF income = "50,001 - 75,000" THEN 8974
    ELSE IF income = "35,001 - 50,000" THEN 1416
    ELSE IF income = "Less than 5,000" THEN -4620
    ELSE IF income = "5,000 - 10,000" THEN -3910
    ELSE 0

\* mutant: the second adjustment under elif
ReasonImpact_Exclusive(reasons) ==
    IF "Food quality" \in reasons /\ "Work/study" \in reasons THEN 2642
    ELSE IF "Coffee quality" \in reasons /\ "Food quality" \in reasons THEN -1161
    ELSE 0

\* the two independent ifs on reg_reason
ReasonImpact(reasons) ==
    (IF "Food quality" \in reasons /\ "Work/study" \in reasons THEN 2642 ELSE 0)
    + (IF "Coffee quality" \in reasons /\ "Food quality" \in reasons THEN -1161 ELSE 0)

\* base_spend after the two adjustments
BaseSpend(income, reasons) == 3500 + IncomeImpact(income) + ReasonImpact(reasons)

Min(a, b) == IF a < b THEN a ELSE b
Max(a, b) == IF a > b THEN a ELSE b

\* mutant: the lower clamp left out
FinalSpend_NoFloor(base_spend) == Min(30000, base_spend)

\* mutant: a lower bound of 20
FinalSpend_Floor20(base_spend) == Max(2000, Min(30000, base_spend))

\* mutant: an upper bound of 150
FinalSpend_Cap150(base_spend) == Max(1500, Min(15000, base_spend))

\* final_spend = max(15, min(300, base_spend))
FinalSpend(base_spend) == Max(1500, Min(30000, base_spend))

---------------------------------------------------------------------------
(* The Persona Matcher (Simulation Lab, tab 2) *)

\* Task B: the cluster means shown on the personas pages, in hundredths
TASK_B_PERSONAS_NUMERIC ==
    [Cluster                |-> <<0, 1, 2, 3>>,
     Avg_Spend_AED          |-> <<2692, 3978, 5878, 6930>>,
     Total_Spend_AED        |-> <<4691, 7388, 14243, 16879>>,
     Willing_Pay_Membership |-> <<6736, 24729, 806, 36773>>]

\* mutant: centres rounded to whole AED
centroids_Rounded ==
    << [label |-> "Cluster 0 (Budget Casual)",      center |-> <<2700, 4700, 6700>>],
       [label |-> "Cluster 1 (Bookworm)",           center |-> <<4000, 7400, 24700>>],
       [label |-> "Cluster 2 (Social Visitor)",     center |-> <<5900, 14200, 800>>],
       [label |-> "Cluster 3 (Premium Enthusiast)", center |-> <<6900, 16900, 36800>>] >>

\* the four cluster centres, in insertion order of the dict
centroids ==
    << [label |-> "Cluster 0 (Budget Casual)",      center |-> <<2692, 4691, 6736>>],
       [label |-> "Cluster 1 (Bookworm)",           center |-> <<3978, 7388, 24729>>],
       [label |-> "Cluster 2 (Social Visitor)",     center |-> <<5878, 14243, 806>>],
       [label |-> "Cluster 3 (Premium Enthusiast)", center |-> <<6930, 16879, 36773>>] >>

\* Squares of differences up to 500.00 AED do not fit TLC's 32-bit integers
\* in hundredths, so a squared length is kept as hi * 10000 + lo.
Abs(a) == IF a < 0 THEN -a ELSE a

Wide(hi, lo) == [hi |-> hi + lo \div 10000, lo |-> lo % 10000]

Square(a) ==
    LET ah == Abs(a) \div 100
        al == Abs(a) % 100
    IN  Wide(ah * ah, 200 * ah * al + al * al)

WideAdd(x, y) == Wide(x.hi + y.hi, x.lo + y.lo)

WideLess(x, y) == x.hi < y.hi \/ (x.hi = y.hi /\ x.lo < y.lo)

\* np.linalg.norm(user_point - center), squared (the square root keeps the
\* order).
Norm2(point, center) ==
    WideAdd(Square(point[1] - center[1]),
            WideAdd(Square(point[2] - center[2]), Square(point[3] - center[3])))

\* mutant: max() in place of min()
KeepsBest_Farthest(point, best, k) ==
    ~ WideLess(Norm2(point, centroids[best].center), Norm2(point, centroids[k].center))

\* mutant: a later element replaces `best` at an equal key
KeepsBest_LastWins(point, best, k) ==
    WideLess(Norm2(point, centroids[best].center), Norm2(point, centroids[k].center))

\* Python's min(iterable, key=...): the first element whose key is not
\* exceeded by a smaller one later; `best` is replaced only by a strictly
\* smaller key.
KeepsBest(point, best, k) ==
    ~ WideLess(Norm2(point, centroids[k].center), Norm2(point, centroids[best].center))

RECURSIVE MinFrom(_, _, _)
MinFrom(point, best, k) ==
    IF k > Len(centroids) THEN best
    ELSE MinFrom(point, IF KeepsBest(point, best, k) THEN best ELSE k, k + 1)

\* mutant: the last centroid left out of the search
BestCluster_SkipsLast(point) ==
    IF KeepsBest(point, 1, 2)
    THEN (IF KeepsBest(point, 1, 3) THEN 1 ELSE 3)
    ELSE (IF KeepsBest(point, 2, 3) THEN 2 ELSE 3)

\* best_cluster = min(centroids.keys(), key=...), as an index 1..4 into
\* centroids (Cluster 0 is index 1)
BestCluster(point) == MinFrom(point, 1, 2)

---------------------------------------------------------------------------
(* The script: one run per interaction *)

DATA_URL ==
    "https://raw.githubusercontent.com/AmoghLakshman/Cafe1/refs/heads/main/cafe_data_cleaned.csv"

Pages ==
    <<"Executive Summary", "Market Insights (EDA)", "Customer Personas",
      "ML Model Results", "Live Prospect Simulator", "The Simulation Lab (Advanced)">>

\* the form_submit_button labels
Buttons == {"Predict", "Predict Spending", "Match Persona", "Recommend Bundle"}

NotCached == [cached |-> FALSE]

\* mutant: a memo that keeps successful results only
Cached_OnlySuccess(v) ==
    IF v = None \/ ("model_ready" \in DOMAIN v /\ ~ v.model_ready)
    THEN [cached |-> FALSE]
    ELSE [cached |-> TRUE, value |-> v]

Cached(v) == [cached |-> TRUE, value |-> v]

NotBuilt == [pipeline |-> NoPipeline, df_ref |-> None, model_ready |-> FALSE]

NoInput ==
    [Avg_Spend_AED |-> 0, Total_Spend_AED |-> 0, Willing_Pay_Membership |-> 0,
     Age_Group |-> "", Gender |-> "", Employment |-> "", Income |-> "",
     Education |-> "", Cafe_Frequency |-> "", Reading_Frequency |-> "",
     Visit_Reason |-> ""]

\* the script's local names before the run assigns them
simReset   == input_data = NoInput /\ probability = 0 /\ tier = ""
spendReset == reg_income = "" /\ reg_reason = {} /\ final_spend = 0 /\ income_impact = 0
matchReset == user_point = <<0, 0, 0>> /\ best_cluster = 0

\* the run has ended: at the footer, at st.stop(), or with an exception that
\* no handler caught
RunEnded == pc \in {"done", "stopped", "crashed"}

\* slider positions tried on the prospect form (each slider starts at 0)
SliderValues == {0, MaxAmount}

\* slider positions tried on the persona form, whole AED as the sliders give
\* them: c_spend in 10..200, c_total in 10..500, c_membership in 0..500
PersonaPoints ==
    {<<100 * a, 100 * b, 100 * c>> :
        a \in {10, 50, 69, 200}, b \in {10, 100, 169, 500}, c \in {0, 50, 368, 500}}
    \cup {<<2700, 4700, 6700>>, <<4000, 7400, 24700>>, <<5900, 14200, 800>>}

\* st.slider(label, lo, hi, value) with integer arguments: a whole number of
\* AED between lo and hi
OnSlider(v, lo, hi) == v % 100 = 0 /\ 100 * lo <= v /\ v <= 100 * hi

\* c_spend, c_total, c_membership of the persona form
OnPersonaSliders(point) ==
    /\ OnSlider(point[1], 10, 200)
    /\ OnSlider(point[2], 10, 500)
    /\ OnSlider(point[3], 0, 500)

Init ==
    /\ data_cache = NotCached
    /\ resource_cache = NotCached
    /\ reads = 0
    /\ fits = 0
    /\ sources_read = <<>>
    /\ computed = {}
    /\ page = Pages[1]
    /\ clicked = "none"
    /\ rendered = {}
    /\ pc = "load"
    /\ df = None
    /\ built = NotBuilt
    /\ shown = {}
    /\ errors = {}
    /\ simReset
    /\ spendReset
    /\ matchReset

\* A user interaction re-runs the script: a change of the sidebar radio, or
\* a click on a form button that is on screen (the radio keeps its value).
Rerun(p, c) ==
    /\ RunEnded
    /\ c \in rendered \cup {"none"}
    /\ c # "none" => p = page
    /\ page' = p
    /\ clicked' = c
    /\ rendered' = {}
    /\ pc' = "load"
    /\ df' = None
    /\ built' = NotBuilt
    /\ shown' = {}
    /\ errors' = {}
    /\ computed' = {}
    /\ input_data' = NoInput /\ probability' = 0 /\ tier' = ""
    /\ reg_income' = "" /\ reg_reason' = {} /\ final_spend' = 0 /\ income_impact' = 0
    /\ user_point' = <<0, 0, 0>> /\ best_cluster' = 0
    /\ UNCHANGED cacheVars

\* mutant: the check `if df is None: st.stop()` left out
StopIfNone_Missing(value) == "page"

\* df = load_data(); if df is None: st.stop()
\* load_data is memoised by st.cache_data: its body runs on the first call
\* of the process only, and its result (a frame or None) and the messages it
\* drew are replayed afterwards.
StopIfNone(value) == IF value = None THEN "stopped" ELSE "page"

\* mutant: two local paths tried before the URL, each read only after the
\* one before it failed
SourcesRead_Fallthrough(outcome) ==
    IF outcome = None THEN <<"data/cafe_data_cleaned.csv", "cafe_data_cleaned.csv", DATA_URL>>
    ELSE <<DATA_URL>>

\* the body of load_data: one pd.read_csv(DATA_URL) inside try, whatever
\* its outcome; the except branch reads nothing
SourcesRead(outcome) == <<DATA_URL>>

ReadCsv(outcome) ==
    /\ pc = "load"
    /\ ~ data_cache.cached
    /\ data_cache' = Cached(outcome)
    /\ reads' = reads + 1
    /\ sources_read' = sources_read \o SourcesRead(outcome)
    /\ computed' = computed \cup {"load"}
    /\ df' = outcome
    /\ errors' = IF outcome = None THEN errors \cup {"Error loading data"} ELSE errors
    /\ pc' = StopIfNone(outcome)
    /\ UNCHANGED <<resource_cache, fits, page, clicked, rendered, built, shown>>
    /\ UNCHANGED <<simVars, spendVars, matchVars>>

\* mutant: load_data without @st.cache_data, its body run again
LoadCached_Rereads ==
    /\ pc = "load"
    /\ data_cache.cached
    /\ \E outcome \in Frames \cup {None} :
          /\ data_cache' = Cached(outcome)
          /\ df' = outcome
          /\ errors' = IF outcome = None THEN errors \cup {"Error loading data"} ELSE errors
          /\ pc' = StopIfNone(outcome)
          /\ sources_read' = sources_read \o SourcesRead(outcome)
    /\ reads' = reads + 1
    /\ computed' = computed \cup {"load"}
    /\ UNCHANGED <<resource_cache, fits, page, clicked, rendered, built, shown>>
    /\ UNCHANGED <<simVars, spendVars, matchVars>>

LoadCached ==
    /\ pc = "load"
    /\ data_cache.cached
    /\ df' = data_cache.value
    /\ errors' = IF data_cache.value = None
                 THEN errors \cup {"Error loading data"} ELSE errors
    /\ pc' = StopIfNone(data_cache.value)
    /\ UNCHANGED <<cacheVars, page, clicked, rendered, built, shown, computed>>
    /\ UNCHANGED <<simVars, spendVars, matchVars>>

\* pages that only draw the hard-coded result tables (and df.head, to_csv)
StaticPage ==
    /\ pc = "page"
    /\ page \in {"Executive Summary", "Customer Personas", "ML Model Results"}
    /\ pc' = "done"
    /\ UNCHANGED <<cacheVars, page, clicked, rendered, df, built, shown, errors>>
    /\ UNCHANGED <<computed, simVars, spendVars, matchVars>>

\* likely_visitors/len(df)*100 divides by zero on a frame without rows; no
\* handler catches it and the run ends there.
MarketInsights ==
    /\ pc = "page"
    /\ page = "Market Insights (EDA)"
    /\ pc' = IF Len(df.rows) = 0 THEN "crashed" ELSE "done"
    /\ UNCHANGED <<cacheVars, page, clicked, rendered, df, built, shown, errors>>
    /\ UNCHANGED <<computed, simVars, spendVars, matchVars>>

\* the body of build_prediction_pipeline: try: ... fit ... except: ...
BuildResult(frame) ==
    IF FitRaises(frame) THEN NotBuilt
    ELSE [pipeline |-> Fit(frame), df_ref |-> frame, model_ready |-> TRUE]

\* mutant: st.stop() left out after the "could not be loaded" message
StopIfNotReady_Missing(model_ready) == "form"

\* if not model_ready: st.error(...); st.stop()
StopIfNotReady(model_ready) == IF model_ready THEN "form" ELSE "stopped"

AfterBuild(b) ==
    /\ built' = b
    /\ errors' = IF b.model_ready THEN errors
                 ELSE errors \cup {"Model could not be loaded."}
    /\ pc' = StopIfNotReady(b.model_ready)

\* pipeline, df_ref, model_ready = build_prediction_pipeline(), memoised by
\* st.cache_resource without arguments
TrainPipeline ==
    /\ pc = "page"
    /\ page = "Live Prospect Simulator"
    /\ ~ resource_cache.cached
    /\ resource_cache' = Cached(BuildResult(df))
    /\ fits' = fits + 1
    /\ AfterBuild(BuildResult(df))
    /\ computed' = computed \cup {"build"}
    /\ UNCHANGED <<data_cache, reads, sources_read, page, clicked, rendered, df, shown>>
    /\ UNCHANGED <<simVars, spendVars, matchVars>>

\* mutant: build_prediction_pipeline without @st.cache_resource
PipelineCached_Refits ==
    /\ pc = "page"
    /\ page = "Live Prospect Simulator"
    /\ resource_cache.cached
    /\ resource_cache' = Cached(BuildResult(df))
    /\ fits' = fits + 1
    /\ AfterBuild(BuildResult(df))
    /\ computed' = computed \cup {"build"}
    /\ UNCHANGED <<data_cache, reads, sources_read, page, clicked, rendered, df, shown>>
    /\ UNCHANGED <<simVars, spendVars, matchVars>>

PipelineCached ==
    /\ pc = "page"
    /\ page = "Live Prospect Simulator"
    /\ resource_cache.cached
    /\ AfterBuild(resource_cache.value)
    /\ UNCHANGED <<cacheVars, page, clicked, rendered, df, shown, computed>>
    /\ UNCHANGED <<simVars, spendVars, matchVars>>

\* mutant: the income selectbox filled from the fixed list of brackets
Options_FixedIncomeList(col) ==
    IF col = "Income" THEN Range(IncomeBrackets) ELSE Unique(built.df_ref, col)

\* the options of a selectbox of the prospect form
Options(col) == Unique(built.df_ref, col)

\* with st.form("prospect_form"): ... ; if submitted: input_data = ...
ProspectForm ==
    /\ pc = "form"
    /\ rendered' = rendered \cup {"Predict"}
    /\ IF clicked = "Predict"
       THEN /\ \E age \in Options("Age_Group"), gender \in Options("Gender"),
                  employment \in Options("Employment"), education \in Options("Education"),
                  income \in Options("Income"), cafe_freq \in Options("Cafe_Frequency"),
                  read_freq \in Options("Reading_Frequency"),
                  visit_reason \in Options("Visit_Reason"),
                  avg_spend \in SliderValues, total_spend \in SliderValues,
                  pay_membership \in SliderValues :
                    input_data' =
                        [Avg_Spend_AED |-> avg_spend, Total_Spend_AED |-> total_spend,
                         Willing_Pay_Membership |-> pay_membership,
                         Age_Group |-> age, Gender |-> gender, Employment |-> employment,
                         Income |-> income, Education |-> education,
                         Cafe_Frequency |-> cafe_freq, Reading_Frequency |-> read_freq,
                         Visit_Reason |-> visit_reason]
            /\ pc' = "predict"
       ELSE /\ input_data' = input_data
            /\ pc' = "done"
    /\ UNCHANGED <<cacheVars, page, clicked, df, built, shown, errors, computed>>
    /\ UNCHANGED <<probability, tier, spendVars, matchVars>>

\* mutant: the prediction made outside try / except
AfterTry_Uncaught(outcome) == IF outcome.ok THEN "done" ELSE "crashed"

\* mutant: st.stop() at the end of the except branch
AfterTry_Stops(outcome) == IF outcome.ok THEN "done" ELSE "stopped"

\* try: probability = pipeline.predict_proba(input_data)[0][1]; the gauge
\* and one of the three boxes; except Exception as e: st.error(...)
\* `except Exception` catches whatever predict_proba or the indexing raises:
\* the run goes on to the footer either way.
AfterTry(outcome) == "done"

AtPredict == pc = "predict"

\* mutant: the submitted row appended to the cached df_ref
Predict_AppendsQuery ==
    /\ AtPredict
    /\ resource_cache' =
          Cached([resource_cache.value EXCEPT
                     !.df_ref = DataFrame(Append(@.rows, input_data))])
    /\ errors' = errors \cup {"appended"}
    /\ pc' = "done"
    /\ computed' = computed \cup {"predict"}
    /\ UNCHANGED <<data_cache, reads, fits, sources_read>>
    /\ UNCHANGED <<page, clicked, rendered, df, built, shown>>
    /\ UNCHANGED <<simVars, spendVars, matchVars>>

Predict ==
    /\ AtPredict
    /\ LET outcome == PredictProba(built.pipeline, input_data)
       IN  IF outcome.ok
           THEN /\ probability' = outcome.value
                /\ tier' = Tier(outcome.value)
                /\ shown' = shown \cup {"prediction"}
                /\ errors' = errors
           ELSE /\ errors' = errors \cup {outcome.error}
                /\ UNCHANGED <<probability, tier, shown>>
    /\ pc' = AfterTry(PredictProba(built.pipeline, input_data))
    /\ computed' = computed \cup {"predict"}
    /\ UNCHANGED <<cacheVars, page, clicked, rendered, df, built>>
    /\ UNCHANGED <<input_data, spendVars, matchVars>>

LabForms == {"Predict Spending", "Match Persona", "Recommend Bundle"}

\* mutant: the block computed without `if predict_spending:`
SpendingPredictor_Unguarded(income, reasons) ==
    /\ pc = "page"
    /\ page = "The Simulation Lab (Advanced)"
    /\ reg_income' = income
    /\ reg_reason' = reasons
    /\ final_spend' = FinalSpend(BaseSpend(income, reasons))
    /\ income_impact' = FinalSpend(BaseSpend(income, reasons)) - 3500
    /\ shown' = shown \cup {"spend"}
    /\ computed' = computed \cup {"spend"}
    /\ rendered' = rendered \cup LabForms
    /\ pc' = "done"
    /\ UNCHANGED <<cacheVars, page, clicked, df, built, errors, simVars, matchVars>>

\* mutant: the "Income Impact" metric shows the bracket's coefficient
SpendingPredictor_ImpactIsCoefficient(income, reasons) ==
    /\ pc = "page"
    /\ page = "The Simulation Lab (Advanced)"
    /\ clicked = "Predict Spending"
    /\ reg_income' = income
    /\ reg_reason' = reasons
    /\ final_spend' = FinalSpend(BaseSpend(income, reasons))
    /\ income_impact' = IncomeImpact(income)
    /\ shown' = shown \cup {"spend"}
    /\ computed' = computed \cup {"spend"}
    /\ rendered' = rendered \cup LabForms
    /\ pc' = "done"
    /\ UNCHANGED <<cacheVars, page, clicked, df, built, errors, simVars, matchVars>>

\* The Simulation Lab draws its three forms in every run; the block under a
\* form runs when that form's button started the run.
SpendingPredictor(income, reasons) ==
    /\ pc = "page"
    /\ page = "The Simulation Lab (Advanced)"
    /\ clicked = "Predict Spending"
    /\ reg_income' = income
    /\ reg_reason' = reasons
    /\ final_spend' = FinalSpend(BaseSpend(income, reasons))
    /\ income_impact' = FinalSpend(BaseSpend(income, reasons)) - 3500
    /\ shown' = shown \cup {"spend"}
    /\ computed' = computed \cup {"spend"}
    /\ rendered' = rendered \cup LabForms
    /\ pc' = "done"
    /\ UNCHANGED <<cacheVars, page, clicked, df, built, errors, simVars, matchVars>>

\* mutant: the block computed without `if match_persona:`
AtPersonaMatcher_NoClick(point) ==
    /\ pc = "page"
    /\ page = "The Simulation Lab (Advanced)"
    /\ OnPersonaSliders(point)

AtPersonaMatcher(point) ==
    /\ pc = "page"
    /\ page = "The Simulation Lab (Advanced)"
    /\ clicked = "Match Persona"
    /\ OnPersonaSliders(point)

PersonaMatcher(point) ==
    /\ AtPersonaMatcher(point)
    /\ user_point' = point
    /\ best_cluster' = BestCluster(point)
    /\ shown' = shown \cup {"persona"}
    /\ computed' = computed \cup {"persona"}
    /\ rendered' = rendered \cup LabForms
    /\ pc' = "done"
    /\ UNCHANGED <<cacheVars, page, clicked, df, built, errors, simVars, spendVars>>

MenuRecommender ==
    /\ pc = "page"
    /\ page = "The Simulation Lab (Advanced)"
    /\ clicked = "Recommend Bundle"
    /\ shown' = shown \cup {"bundle"}
    /\ computed' = computed \cup {"bundle"}
    /\ rendered' = rendered \cup LabForms
    /\ pc' = "done"
    /\ UNCHANGED <<cacheVars, page, clicked, df, built, errors>>
    /\ UNCHANGED <<simVars, spendVars, matchVars>>

LabNoSubmit ==
    /\ pc = "page"
    /\ page = "The Simulation Lab (Advanced)"
    /\ clicked \notin LabForms
    /\ rendered' = rendered \cup LabForms
    /\ pc' = "done"
    /\ UNCHANGED <<cacheVars, page, clicked, df, built, shown, errors, computed>>
    /\ UNCHANGED <<simVars, spendVars, matchVars>>

Next ==
    \/ \E p \in Range(Pages), c \in Buttons \cup {"none"} : Rerun(p, c)
    \/ \E outcome \in Frames \cup {None} : ReadCsv(outcome)
    \/ LoadCached
    \/ StaticPage
    \/ MarketInsights
    \/ TrainPipeline
    \/ PipelineCached
    \/ ProspectForm
    \/ Predict
    \/ \E income \in Range(IncomeBrackets), reasons \in SUBSET VisitReasons :
          SpendingPredictor(income, reasons)
    \/ \E point \in PersonaPoints : PersonaMatcher(point)
    \/ MenuRecommender
    \/ LabNoSubmit

Spec == Init /\ [][Next]_vars

\* The script can take its next step.  The two blocks whose effect is a
\* computation over the whole training set or centroid list are enabled
\* exactly when their guards hold (their effects assign every variable).
RunCanProceed ==
    \/ ENABLED \/ \E outcome \in Frames \cup {None} : ReadCsv(outcome)
               \/ LoadCached
               \/ StaticPage
               \/ MarketInsights
               \/ TrainPipeline
               \/ PipelineCached
               \/ ProspectForm
               \/ \E income \in Range(IncomeBrackets), reasons \in SUBSET VisitReasons :
                     SpendingPredictor(income, reasons)
               \/ MenuRecommender
               \/ LabNoSubmit
    \/ AtPredict
    \/ \E point \in PersonaPoints : AtPersonaMatcher(point)

Interaction == \E p \in Range(Pages), c \in Buttons \cup {"none"} : Rerun(p, c)

---------------------------------------------------------------------------
(* Claims C1 - C3: failures of the data source, of training, of prediction *)

LoadFailed  == data_cache.cached /\ data_cache.value = None
BuildFailed == resource_cache.cached /\ ~ resource_cache.value.model_ready
OnSimulator == page = "Live Prospect Simulator"

---------------------------------------------------------------------------
(* Pure-function specification: predict_proba and the persona matcher      *)
(* applied to inputs wider than the forms can submit                       *)

\* records for predict_proba: the categories of the training data and, in
\* three columns, one value that no candidate row holds
PredictionRecords(frame) ==
    { [Avg_Spend_AED |-> avg, Total_Spend_AED |-> 0, Willing_Pay_Membership |-> wtp,
       Age_Group |-> "25-34", Gender |-> gender, Employment |-> "Employed",
       Income |-> income, Education |-> "Bachelor", Cafe_Frequency |-> "Once a week",
       Reading_Frequency |-> reading, Visit_Reason |-> "Coffee quality"] :
         avg \in SliderValues, wtp \in SliderValues,
         gender \in Unique(frame, "Gender") \cup {"Male"},
         income \in Unique(frame, "Income") \cup {"Above 75,000"},
         reading \in Unique(frame, "Reading_Frequency") \cup {"Daily reader"} }

\* points for the matcher, in hundredths: the four centres, three points at
\* equal distance from two centres, and some slider positions
MatchPoints ==
    {centroids[k].center : k \in DOMAIN centroids}
    \cup {<<1057, 8450, 15534>>, <<1029, 11000, 4491>>, <<1024, 24400, 16350>>}
    \cup {<<100 * a, 100 * b, 100 * c>> : a \in {10, 69}, b \in {10, 169}, c \in {0, 368}}

InitFn ==
    /\ data_cache = NotCached
    /\ resource_cache = NotCached
    /\ reads = 0
    /\ fits = 0
    /\ sources_read = <<>>
    /\ computed = {}
    /\ page = Pages[1]
    /\ clicked = "none"
    /\ rendered = {}
    /\ pc = "call"
    /\ df \in {f \in Frames : ~ FitRaises(f)}
    /\ built = BuildResult(df)
    /\ shown = {}
    /\ errors = {}
    /\ simReset
    /\ spendReset
    /\ matchReset

\* probability = pipeline.predict_proba(input_data)[0][1] on any record
CallPredictProba(rec) ==
    /\ pc = "call"
    /\ input_data' = rec
    /\ LET outcome == PredictProba(built.pipeline, rec)
       IN  IF outcome.ok
           THEN /\ probability' = outcome.value
                /\ tier' = Tier(outcome.value)
                /\ shown' = {"prediction"}
                /\ errors' = {}
           ELSE /\ probability' = 0
                /\ tier' = ""
                /\ shown' = {}
                /\ errors' = {outcome.error}
    /\ pc' = "predict_proba"
    /\ computed' = {"predict"}
    /\ user_point' = <<0, 0, 0>> /\ best_cluster' = 0
    /\ UNCHANGED <<cacheVars, page, clicked, rendered, df, built, spendVars>>

\* best_cluster = min(centroids.keys(), key=...) on any point
CallBestCluster(point) ==
    /\ pc = "call"
    /\ user_point' = point
    /\ best_cluster' = BestCluster(point)
    /\ shown' = {"persona"}
    /\ errors' = {}
    /\ pc' = "min"
    /\ computed' = {"persona"}
    /\ input_data' = NoInput /\ probability' = 0 /\ tier' = ""
    /\ UNCHANGED <<cacheVars, page, clicked, rendered, df, built, spendVars>>

NextFn ==
    \/ \E rec \in PredictionRecords(df) : CallPredictProba(rec)
    \/ \E point \in MatchPoints : CallBestCluster(point)

SpecFn == InitFn /\ [][NextFn]_vars

---------------------------------------------------------------------------
(* Claims C4, C5: the classifier *)

\* distances of the training rows to the query, and the distance of the
\* k-th nearest row
RowDistances(b, rec) ==
    [i \in 1..b.pipeline.n |-> Dist2(b.pipeline, b.df_ref.rows[i], rec)]

KthDistance(d) ==
    CHOOSE t \in Range(d) :
        /\ Cardinality({i \in DOMAIN d : d[i] < t}) < n_neighbors
        /\ Cardinality({i \in DOMAIN d : d[i] <= t}) >= n_neighbors

\* v (in percent) is the share of positive records in some set of k nearest
\* neighbours of rec: every row nearer than the k-th distance is in the set,
\* and it is filled up with rows at the k-th distance.
IsKnnShare(b, rec, v) ==
    LET d       == RowDistances(b, rec)
        t       == KthDistance(d)
        pos(S)  == Cardinality({i \in S : b.df_ref.rows[i][TARGET] \in positive_maps})
        nearer  == {i \in DOMAIN d : d[i] < t}
        level   == {i \in DOMAIN d : d[i] = t}
        fill    == n_neighbors - Cardinality(nearer)
        votes   == (v * n_neighbors) \div 100
    IN  /\ votes * 100 = v * n_neighbors
        /\ votes >= pos(nearer) + Max(0, fill - (Cardinality(level) - pos(level)))
        /\ votes <= pos(nearer) + Min(fill, pos(level))

\* C4 as claimed (for pipelines trained on at least k records, so that k
\* nearest neighbours exist): a submitted prediction shows a probability in
\* [0, 1] that is the share of positive records among the k nearest
\* neighbours of the query.
C4_PredictReturnsKnnShare ==
    (RunEnded /\ clicked = "Predict" /\ built.model_ready
        /\ built.pipeline.n >= n_neighbors) =>
        /\ "prediction" \in shown
        /\ probability \in 0..100
        /\ IsKnnShare(built, input_data, probability)

\* C4, what the code does keep: when the training labels hold both classes
\* the displayed probability is that share; when they are all alike the
\* indexing [0][1] raises and an error is shown in place of a probability.
C4_ShareOnTwoClasses ==
    (RunEnded /\ clicked = "Predict" /\ built.pipeline.n >= n_neighbors) =>
        IF Cardinality({Label(r[TARGET]) : r \in Range(built.df_ref.rows)}) = 2
        THEN /\ "prediction" \in shown
             /\ probability \in 0..100
             /\ IsKnnShare(built, input_data, probability)
        ELSE "prediction" \notin shown /\ errors = {"IndexError"}

UnseenColumns == {c \in Range(CAT_FEAT) : input_data[c] \notin Unique(df, c)}

\* C5: a record with a categorical value absent from the training data is
\* encoded as all zeros in that column, and the unseen value causes no error:
\* predict_proba answers it exactly when it answers a training row's own
\* features, and then with a probability in [0, 1].
C5_UnseenCategoryIgnored ==
    (pc = "predict_proba" /\ UnseenColumns # {}) =>
        /\ \A c \in UnseenColumns : \A k \in Unique(df, c) :
              OneHot(built.pipeline, c, input_data[c])[k] = 0
        /\ ("prediction" \in shown) <=> PredictProba(built.pipeline, df.rows[1]).ok
        /\ "prediction" \in shown => probability \in 0..100
        /\ "prediction" \notin shown =>
              errors = {PredictProba(built.pipeline, df.rows[1]).error}

C5_Witness ==
    /\ pc = "predict_proba" /\ "prediction" \in shown
    /\ Cardinality(UnseenColumns) = 3

---------------------------------------------------------------------------
(* Claims C6, C7: the spend estimate *)

\* C6: for every income bracket and every set of visit reasons the displayed
\* estimate lies in [15, 300].
C6_SpendInRange ==
    "spend" \in shown =>
        /\ reg_income \in Range(IncomeBrackets) /\ reg_reason \subseteq VisitReasons
        /\ 1500 <= final_spend /\ final_spend <= 30000

\* the lower clamp at work
C6_Witness ==
    "spend" \in shown /\ BaseSpend(reg_income, reg_reason) < 1500 /\ final_spend = 1500

\* C7 as claimed: the estimate adds to 35.0 the coefficient that the
\* regression table lists for the bracket; one bracket, the baseline, has
\* none and the other six have one each, all different.
C7_TableCoefficientAdded ==
    /\ Cardinality({b \in Range(IncomeBrackets) : TASK_C_DRIVERS[b] = 0}) = 1
    /\ Cardinality({TASK_C_DRIVERS[b] : b \in Range(IncomeBrackets)}) = Len(IncomeBrackets)
    /\ ("spend" \in shown /\ ReasonImpact(reg_reason) = 0) =>
          final_spend = FinalSpend(3500 + TASK_C_DRIVERS[reg_income])

---------------------------------------------------------------------------
(* Claims C8 - C10: the persona matcher *)

Distance2(k) == Norm2(user_point, centroids[k].center)

\* the centroids at the least distance from user_point
AtMinimum ==
    {k \in DOMAIN centroids :
        \A j \in DOMAIN centroids : ~ WideLess(Distance2(j), Distance2(k))}

\* C8: the matcher returns a centroid whose distance to the point, in raw
\* units over (average spend, total spend, membership willingness-to-pay),
\* is less than or equal to the distance of each other centroid.
C8_NearestCentroid ==
    "persona" \in shown =>
        /\ best_cluster \in DOMAIN centroids
        /\ \A j \in DOMAIN centroids : ~ WideLess(Distance2(j), Distance2(best_cluster))

C8_Witness ==
    "persona" \in shown /\ centroids[best_cluster].label = "Cluster 2 (Social Visitor)"

\* C9: at equal least distance from two or more centroids the matcher
\* returns the lowest-indexed of them; the result is determined by the
\* point, so every call with that point returns it.
C9_TieToLowestIndex ==
    "persona" \in shown =>
        /\ best_cluster \in AtMinimum
        /\ \A k \in AtMinimum : best_cluster <= k

C9_Witness ==
    "persona" \in shown /\ AtMinimum = {2, 3} /\ best_cluster = 2

---------------------------------------------------------------------------
(* Pure-function specification: the labels derived by the training step,   *)
(* on datasets holding every kind of visit-likelihood answer                *)

\* an empty cell of the CSV, as pd.read_csv delivers it
NaN == "NaN"

LikelihoodValues ==
    {"Definitely will visit", "Probably will visit", "Might visit",
     "Probably will not visit", NaN}

RECURSIVE RowSeqs(_)
\* the sequences of 1..n rows that differ in their visit-likelihood only
RowSeqs(n) ==
    IF n = 0 THEN {<<>>}
    ELSE LET shorter == RowSeqs(n - 1)
         IN  shorter \cup
             {Append(rows, SurveyRecord(1, 1, 0, "10,001 - 20,000", "Occasional reader", l)) :
                 rows \in shorter, l \in LikelihoodValues}

LabelFrames == {DataFrame(rows) : rows \in RowSeqs(MaxRows) \ {<<>>}}

InitLabel ==
    /\ data_cache = NotCached
    /\ resource_cache = NotCached
    /\ reads = 0
    /\ fits = 0
    /\ sources_read = <<>>
    /\ computed = {}
    /\ page = Pages[5]
    /\ clicked = "none"
    /\ rendered = {}
    /\ pc = "fit"
    /\ df \in LabelFrames
    /\ built = NotBuilt
    /\ shown = {}
    /\ errors = {}
    /\ simReset
    /\ spendReset
    /\ matchReset

\* the body of build_prediction_pipeline on df
CallBuild ==
    /\ pc = "fit"
    /\ built' = BuildResult(df)
    /\ fits' = fits + 1
    /\ computed' = {"build"}
    /\ pc' = "fitted"
    /\ UNCHANGED <<data_cache, resource_cache, reads, sources_read>>
    /\ UNCHANGED <<page, clicked, rendered, df, shown, errors>>
    /\ UNCHANGED <<simVars, spendVars, matchVars>>

NextLabel == CallBuild

SpecLabel == InitLabel /\ [][NextLabel]_vars

---------------------------------------------------------------------------
(* Claims C11, C12: tiers and training labels *)

\* C11: every prediction result carries exactly one tier, HIGH when its
\* probability is above 0.7, MEDIUM when it is above 0.4 and at most 0.7, LOW
\* otherwise; the tier function does so on every probability of [0, 1].
C11_TierByThresholds ==
    /\ \A p \in 0..100 :
          /\ Tier(p) \in {"HIGH", "MEDIUM", "LOW"}
          /\ Tier(p) = "HIGH" <=> p > 70
          /\ Tier(p) = "MEDIUM" <=> (p > 40 /\ p <= 70)
          /\ Tier(p) = "LOW" <=> p <= 40
    /\ "prediction" \in shown =>
          /\ tier \in {"HIGH", "MEDIUM", "LOW"}
          /\ tier = "HIGH" <=> probability > 70
          /\ tier = "MEDIUM" <=> (probability > 40 /\ probability <= 70)
          /\ tier = "LOW" <=> probability <= 40

\* a result exactly on the lower threshold: 2 of 5 neighbours positive
C11_Witness == "prediction" \in shown /\ probability = 40 /\ tier = "LOW"

\* C12: the training label of a record is 1 exactly when its
\* visit-likelihood is 'Definitely will visit' or 'Probably will visit', and
\* 0 for every other value, 'Might visit' and a missing value included.
C12_LabelPositiveIffLikely ==
    pc = "fitted" =>
        /\ built.model_ready
        /\ Len(built.pipeline.y) = Len(df.rows)
        /\ \A i \in DOMAIN df.rows :
              /\ built.pipeline.y[i] \in {0, 1}
              /\ built.pipeline.y[i] = 1 <=>
                    df.rows[i][TARGET] \in {"Definitely will visit", "Probably will visit"}

C12_Witness ==
    /\ pc = "fitted" /\ Len(df.rows) = 3
    /\ df.rows[1][TARGET] = "Might visit" /\ df.rows[2][TARGET] = NaN
    /\ df.rows[3][TARGET] = "Probably will visit"
    /\ built.pipeline.y = <<0, 0, 1>>

---------------------------------------------------------------------------
(* Claims C13 - C16: the data source and the two caches *)

C14_ReadAtMostOnce ==
    /\ [](/\ reads <= 1
          /\ data_cache.cached <=> reads = 1
          /\ pc # "load" => data_cache.cached /\ df = data_cache.value
          /\ "load" \in computed => reads = 1)
    /\ [][/\ reads' # reads => ~ data_cache.cached /\ reads = 0 /\ pc = "load"
          /\ data_cache.cached => reads' = reads /\ sources_read' = sources_read]_vars

\* a later run, served from the cache
C14_Witness ==
    /\ reads = 1 /\ "load" \notin computed
    /\ pc = "done" /\ page = "Market Insights (EDA)" /\ df = data_cache.value

\* C15: the pipeline is trained lazily and once: no fit before a run shows
\* the Live Prospect Simulator, at most one fit per process, and every later
\* run of the simulator, its predictions included, uses the pipeline of that
\* one fit.
C15_TrainedLazilyOnce ==
    /\ [](/\ fits <= 1
          /\ resource_cache.cached <=> fits = 1
          /\ "build" \in computed => fits = 1 /\ page = "Live Prospect Simulator"
          /\ pc \in {"form", "predict"} \/ "predict" \in computed =>
                resource_cache.cached /\ built = resource_cache.value)
    /\ [][/\ fits' # fits =>
                /\ fits = 0 /\ ~ resource_cache.cached
                /\ page = "Live Prospect Simulator" /\ pc = "page"
          /\ resource_cache.cached => fits' = fits]_vars

\* a prediction in a run that did not train
C15_Witness ==
    fits = 1 /\ "build" \notin computed /\ "prediction" \in shown

---------------------------------------------------------------------------
(* Claim C17: the rule-based score *)

\* the score of the claim, in percent
RuleScore(rec) ==
    Min(95, 50 + (IF rec.Income \in {"50,001 - 75,000", "Above 75,000"} THEN 20 ELSE 0)
               + (IF rec.Total_Spend_AED > 100 THEN 15 ELSE 0)
               + (IF rec.Reading_Frequency = "Regular reader" THEN 10 ELSE 0))

---------------------------------------------------------------------------
(* Claims C18 - C20: what one run computes and what it leaves alone *)

\* C18: a run performs at most one computation (data load, pipeline build,
\* prediction, spend estimate, persona match, bundle recommendation), the one
\* its page and its button ask for: one page branch runs, and in the
\* Simulation Lab at most one of the three blocks is computed.
C18_OneComputationPerRun ==
    /\ Cardinality(computed) <= 1
    /\ computed \subseteq {"load", "build", "predict", "spend", "persona", "bundle"}
    /\ computed \cap {"build", "predict"} # {} => page = "Live Prospect Simulator"
    /\ "predict" \in computed => clicked = "Predict"
    /\ computed \cap {"spend", "persona", "bundle"} # {} =>
          page = "The Simulation Lab (Advanced)"
    /\ "spend" \in computed <=> "spend" \in shown
    /\ "persona" \in computed <=> "persona" \in shown
    /\ "bundle" \in computed <=> "bundle" \in shown
    /\ "prediction" \in shown => "predict" \in computed
    /\ "spend" \in computed => clicked = "Predict Spending"
    /\ "persona" \in computed => clicked = "Match Persona"
    /\ "bundle" \in computed => clicked = "Recommend Bundle"
    /\ rendered \subseteq (IF page = "Live Prospect Simulator" THEN {"Predict"}
                           ELSE IF page = "The Simulation Lab (Advanced)" THEN LabForms
                           ELSE {})

C18_Witness ==
    /\ pc = "done" /\ page = "The Simulation Lab (Advanced)"
    /\ computed = {"persona"} /\ shown = {"persona"} /\ rendered = LabForms

\* C19: once constructed, the cached dataset and the cached pipeline are
\* never changed: no step of any run (page view, prediction, persona match,
\* spend estimate, bundle recommendation) alters them, and within a run the
\* frame and the pipeline the script holds stay as they were handed out.
C19_CachedValuesReadOnly ==
    [][/\ data_cache.cached => data_cache' = data_cache
       /\ resource_cache.cached => resource_cache' = resource_cache
       /\ (pc # "load" /\ pc' # "load") => df' = df
       /\ (built.model_ready /\ pc' # "load") => built' = built]_vars

\* a prediction made from the cached pipeline in a later run
C19_Witness ==
    /\ "prediction" \in shown /\ "build" \notin computed
    /\ built = resource_cache.value /\ df = data_cache.value

\* the centre of cluster k as the persona table gives it
TableCenter(k) ==
    << TASK_B_PERSONAS_NUMERIC.Avg_Spend_AED[k],
       TASK_B_PERSONAS_NUMERIC.Total_Spend_AED[k],
       TASK_B_PERSONAS_NUMERIC.Willing_Pay_Membership[k] >>

\* the first cluster of the persona table at the least distance from point
TableNearest(point) ==
    CHOOSE k \in DOMAIN TASK_B_PERSONAS_NUMERIC.Cluster :
        /\ \A j \in DOMAIN TASK_B_PERSONAS_NUMERIC.Cluster :
              ~ WideLess(Norm2(point, TableCenter(j)), Norm2(point, TableCenter(k)))
        /\ \A j \in 1..(k - 1) :
              WideLess(Norm2(point, TableCenter(k)), Norm2(point, TableCenter(j)))

\* C20: on every request, whatever interactions came before it, the matcher
\* works with the same four centres and labels, those of the persona table,
\* so that the result is a function of the submitted point alone.
C20_CentroidsFixed ==
    /\ Len(centroids) = 4
    /\ \A k \in DOMAIN centroids :
          /\ centroids[k].center = TableCenter(k)
          /\ centroids[k].label \in
                {"Cluster 0 (Budget Casual)", "Cluster 1 (Bookworm)",
                 "Cluster 2 (Social Visitor)", "Cluster 3 (Premium Enthusiast)"}
    /\ "persona" \in shown => best_cluster = TableNearest(user_point)

\* a persona match requested after the classifier was trained in an earlier run
C20_Witness ==
    /\ "persona" \in shown /\ fits = 1 /\ reads = 1
    /\ user_point = <<5000, 10000, 5000>>

---------------------------------------------------------------------------
(* Claims C21 - C23, C25, C30: the spend estimate in detail *)

FoodAndWork   == {"Food quality", "Work/study"} \subseteq reg_reason
CoffeeAndFood == {"Coffee quality", "Food quality"} \subseteq reg_reason

\* the estimate before the clamp
Unclamped == BaseSpend(reg_income, reg_reason)

\* C21: +26.42 applies exactly when the reasons hold both 'Food quality' and
\* 'Work/study', -11.61 exactly when they hold both 'Coffee quality' and
\* 'Food quality', both when all three are selected (+14.81 net), and the
\* tags 'Ambiance' and 'Social meetings' change nothing.
C21_ReasonAdjustmentsIndependent ==
    "spend" \in shown =>
        /\ final_spend =
              Max(1500, Min(30000,
                  3500 + IncomeImpact(reg_income)
                       + (IF FoodAndWork THEN 2642 ELSE 0)
                       + (IF CoffeeAndFood THEN -1161 ELSE 0)))
        /\ (FoodAndWork /\ CoffeeAndFood) =>
              final_spend = Max(1500, 3500 + IncomeImpact(reg_income) + 1481)
        /\ final_spend =
              FinalSpend(BaseSpend(reg_income,
                  reg_reason \ {"Ambiance", "Social meetings"}))

\* all five tags selected: both adjustments, no clamp
C21_Witness ==
    /\ "spend" \in shown /\ reg_reason = VisitReasons
    /\ reg_income = "20,001 - 35,000" /\ final_spend = 4981

\* C22: 'Above 75,000' with no visit reasons gives 152.24.
C22_TopBracketNoReasons ==
    ("spend" \in shown /\ reg_income = "Above 75,000" /\ reg_reason = {}) =>
        final_spend = 15224

C22_Witness ==
    /\ "spend" \in shown /\ reg_income = "Above 75,000" /\ reg_reason = {}
    /\ final_spend = 3500 + 11724

\* C23: 'Less than 5,000' with {'Food quality', 'Work/study'} gives 15.22,
\* a value inside the bounds that the clamp leaves as it is.
C23_LowestBracketFoodAndWork ==
    ("spend" \in shown /\ reg_income = "Less than 5,000"
        /\ reg_reason = {"Food quality", "Work/study"}) =>
        /\ final_spend = 1522
        /\ Unclamped = 1522
        /\ 1500 <= Unclamped /\ Unclamped <= 30000

C23_Witness ==
    /\ "spend" \in shown /\ reg_income = "Less than 5,000"
    /\ reg_reason = {"Food quality", "Work/study"} /\ final_spend = 3500 - 4620 + 2642

\* C25: over the seven brackets and all sets of tags the upper clamp never
\* binds: the largest unclamped sum is 178.66, for 'Above 75,000' with 'Food
\* quality' and 'Work/study' and without 'Coffee quality'.  The lower clamp
\* binds exactly on the inputs whose unclamped sum is below 15, as for 'Less
\* than 5,000' with 'Coffee quality' and 'Food quality' and without
\* 'Work/study'.
C25_OnlyLowerClampBinds ==
    "spend" \in shown =>
        /\ Unclamped <= 17866 /\ final_spend <= 17866
        /\ Unclamped = 17866 <=>
              /\ reg_income = "Above 75,000"
              /\ FoodAndWork /\ "Coffee quality" \notin reg_reason
        /\ final_spend # Unclamped <=> Unclamped < 1500
        /\ Unclamped < 1500 => final_spend = 1500
        /\ (/\ reg_income = "Less than 5,000"
            /\ CoffeeAndFood /\ "Work/study" \notin reg_reason) =>
              Unclamped < 1500 /\ final_spend = 1500

\* the largest estimate
C25_Witness ==
    /\ "spend" \in shown /\ final_spend = 17866
    /\ reg_income = "Above 75,000" /\ reg_reason = {"Food quality", "Work/study"}

\* C30: the 'Income Impact' figure is the clamped estimate minus 35.0; it
\* equals the coefficient of the selected bracket (the one the estimate
\* applied, and likewise the one of the regression table) only when neither
\* reason-pair adjustment applies and the lower clamp does not bind.
C30_IncomeImpactIsEstimateLessBase ==
    "spend" \in shown =>
        /\ income_impact = final_spend - 3500
        /\ income_impact = IncomeImpact(reg_income) =>
              ~ FoodAndWork /\ ~ CoffeeAndFood /\ Unclamped >= 1500
        /\ income_impact = TASK_C_DRIVERS[reg_income] =>
              ~ FoodAndWork /\ ~ CoffeeAndFood /\ Unclamped >= 1500
        /\ (~ FoodAndWork /\ ~ CoffeeAndFood /\ Unclamped >= 1500) =>
              income_impact = IncomeImpact(reg_income)

\* a figure that is not the bracket's coefficient: an adjustment applies
C30_Witness ==
    /\ "spend" \in shown /\ reg_income = "50,001 - 75,000" /\ FoodAndWork
    /\ income_impact = 8974 + 2642

----------------------------------------------------------------------------
(* C24, C26 .. C29: what a run shows, and when *)

\* C24: the prediction, the spending estimate, the persona and the bundle are
\* computed and shown only in a run whose click was their own button; a run
\* started otherwise (the first view included) leaves each of them uncomputed,
\* unshown, and its variables unassigned.
C24_ResultsOnlyAfterClick ==
    /\ clicked # "Predict" =>
          /\ pc # "predict"
          /\ "predict" \notin computed /\ "prediction" \notin shown
          /\ simReset
    /\ clicked # "Predict Spending" =>
          "spend" \notin computed /\ "spend" \notin shown /\ spendReset
    /\ clicked # "Match Persona" =>
          "persona" \notin computed /\ "persona" \notin shown /\ matchReset
    /\ clicked # "Recommend Bundle" =>
          "bundle" \notin computed /\ "bundle" \notin shown
    /\ clicked = "none" => shown = {}

\* the first view of the lab: the three forms drawn, nothing computed
C24_Witness ==
    /\ pc = "done"
    /\ page = "The Simulation Lab (Advanced)"
    /\ clicked = "none"
    /\ rendered = LabForms
    /\ shown = {} /\ computed = {}
    /\ spendReset /\ matchReset

\* the rows of the training frame that the vote of a shown prediction counted
Voters == Neighbours(built.pipeline, input_data)
Positives ==
    Cardinality({i \in Voters :
        built.df_ref.rows[i][TARGET] \in {"Definitely will visit", "Probably will visit"}})

\* C26: a shown probability is a whole number of fifths, the share of positive
\* rows among exactly five voters; the tier is HIGH iff at least four of the
\* five are positive, MEDIUM iff exactly three, LOW iff two or fewer (so 0.4
\* is LOW).
C26_FifthsAndTiers ==
    "prediction" \in shown =>
        /\ Cardinality(Voters) = 5
        /\ probability \in {0, 20, 40, 60, 80, 100}
        /\ probability = 20 * Positives
        /\ tier = "HIGH" <=> Positives >= 4
        /\ tier = "MEDIUM" <=> Positives = 3
        /\ tier = "LOW" <=> Positives =< 2
        /\ probability = 40 => tier = "LOW"

C26_Witness ==
    "prediction" \in shown /\ probability = 60 /\ tier = "MEDIUM" /\ Positives = 3

\* C27: a request built by the prospect form carries, in every categorical
\* field, a value that occurs in the training data (so one the encoder was
\* fitted on), and numeric values inside the sliders' ranges; no prediction
\* fails on an unseen category.
C27_FormValuesSeenInTraining ==
    (pc = "predict" \/ "predict" \in computed) =>
        /\ \A c \in Range(CAT_FEAT) :
              /\ input_data[c] \in built.pipeline.categories[c]
              /\ \E i \in DOMAIN built.df_ref.rows : built.df_ref.rows[i][c] = input_data[c]
        /\ input_data.Avg_Spend_AED \in 0..150
        /\ input_data.Total_Spend_AED \in 0..300
        /\ input_data.Willing_Pay_Membership \in 0..500
        /\ ~ EncodeRaises(built.pipeline, input_data)

C27_Witness ==
    /\ "predict" \in computed /\ "prediction" \in shown
    /\ input_data.Income = "50,001 - 75,000"
    /\ input_data.Avg_Spend_AED = MaxAmount

\* C28: a failed outcome is memoised like a successful one: once load_data
\* has returned None, or the build has returned model_ready False, that stays
\* the cached value and the function is not executed again; every later run
\* reports the same error and halts at the same point, before anything of the
\* page is drawn.
C28_FailuresMemoised ==
    /\ [](/\ "Error loading data" \in errors => LoadFailed
          /\ "Model could not be loaded." \in errors => BuildFailed
          /\ (LoadFailed /\ pc # "load") =>
                /\ pc = "stopped"
                /\ "Error loading data" \in errors
                /\ shown = {} /\ rendered = {}
          /\ (BuildFailed /\ OnSimulator /\ pc \notin {"load", "page"}) =>
                /\ pc = "stopped"
                /\ "Model could not be loaded." \in errors
                /\ shown = {} /\ rendered = {})
    /\ [][/\ LoadFailed => (LoadFailed' /\ reads' = reads)
          /\ BuildFailed => (BuildFailed' /\ fits' = fits)]_vars

\* a later run, served from the memo, halted on the failed build
C28_Witness ==
    /\ BuildFailed /\ OnSimulator
    /\ pc = "stopped"
    /\ "build" \notin computed
    /\ fits = 1
    /\ errors = {"Model could not be loaded."}

\* C29: when the prediction raises, the error is shown, no probability and no
\* tier are, and the run goes on to its end instead of being stopped: the
\* form stays drawn and the next submission is accepted.
C29_PredictErrorCaught ==
    ("predict" \in computed /\ "prediction" \notin shown) =>
        /\ Cardinality(errors) = 1
        /\ errors \subseteq {"IndexError", "ValueError: n_neighbors > n_samples"}
        /\ probability = 0 /\ tier = ""
        /\ pc = "done"
        /\ "Predict" \in rendered
        /\ ENABLED Rerun(page, "Predict")

C29_Witness ==
    /\ "predict" \in computed /\ "prediction" \notin shown
    /\ pc = "done"
    /\ errors = {"IndexError"}

====
